---- MODULE Spec2Model ----
(***************************************************************************)
(* Model of the real-time WebSocket STT load client                        *)
(* (src/websocket_client/run.py).                                          *)
(*                                                                         *)
(*   Spec      one session: run_single_session with its send task, its     *)
(*             receive task, the connection and the server.                *)
(*   SpecLoad  run_load: N sessions under asyncio.gather and the loop      *)
(*             shutdown of asyncio.run.                                    *)
(*   SpecText  the final-transcript reduction as a function of the log.    *)
(*   SpecSend  the send task alone on an open connection, over a wider     *)
(*             range of assets and settings.                               *)
(*   SpecPace  the send loop with a clock: t0, send, _wait_remaining.      *)
(*   SpecStats _print_stats as a function of the series it is given.       *)
(*   SpecMain  main(): arguments, ClientConfig, dispatch to the sessions.  *)
(*                                                                         *)
(* Python values are tagged records ([t |-> "None"], [t |-> "bool", ...]); *)
(* strings are sequences of characters; numbers are integers counting      *)
(* 1e-5 seconds. Wall-clock durations (session_time_s) are not modelled.   *)
(***************************************************************************)
EXTENDS Integers, Sequences, FiniteSets, TLC

VARIABLES
    \* ---- one session (Spec) ----
    cfg,          \* ClientConfig fields used by the session, and the asset
    ses_pc,       \* position of run_single_session
    ws,           \* the connection: "none", "open", "peer_closed", "closed"
    snd_pc,       \* position of the send task
    fh,           \* audio file handle: "none", "open", "closed"
    stream,       \* bytes_per_sec, chunk_size, frame size of the opened asset
    pos,          \* read cursor in the asset's data, in bytes
    bytes_sent,   \* silence bytes sent so far
    sent,         \* chunks transmitted on the connection, in order
    rcv_pc,       \* position of the receive task
    rcv_end,      \* how the receive loop left its while loop
    idle,         \* ticks elapsed since the current wait_for started
    inq,          \* inbound messages delivered by the server, not yet read
    inbox,        \* every raw message recv() has returned, in order
    served,       \* number of messages the server has sent
    df,           \* the session log (the DataFrame rows)
    result,       \* the SessionResult values returned (at most one)
    files,        \* transcript files written: path and content
    sent_late,    \* history: a chunk was sent after the receive loop had ended
    recv_late,    \* history: a frame was read after the send task had ended
    \* ---- load run (SpecLoad) ----
    l_paths,      \* audio_paths argument of run_load
    l_users,      \* users argument of run_load
    l_pc,         \* position of run_load
    l_tasks,      \* the coroutines built by the for loop, in launch order
    l_st,         \* state of each launched session
    l_slot,       \* gather's result slot of each session
    l_done,       \* launch indices in the order the sessions finished
    l_results,    \* the list gather returned
    l_reported,   \* user ids printed in "Resultados por usuario"
    \* ---- transcript reduction (SpecText) ----
    t_log,        \* a session log
    t_cfo,        \* concat_finals_only
    t_text,       \* the final transcript computed from t_log
    \* ---- paced send loop (SpecPace) ----
    p_cfg,        \* bytes_per_sec, pace_factor and the chunk lengths to send
    p_pc,         \* position of the loop body: "t0", "send", "wait", "sleep", "done"
    p_k,          \* index of the chunk being handled
    p_now,        \* time.perf_counter(), in ticks
    p_t0,         \* t0 of the chunk being handled
    p_lag,        \* ticks spent in read and send for the chunk being handled
    p_log,        \* the chunk in hand and the one before it: index, length,
                  \* start, send time, elapsed, sleep requested
    \* ---- statistics (SpecStats) ----
    st_values,    \* the series given to _print_stats
    st_out,       \* what _print_stats printed
    \* ---- main (SpecMain) ----
    m_args,       \* the parsed command line
    m_pc,         \* position of main
    m_cfg,        \* the ClientConfig main built
    m_users,      \* user ids of the sessions main started
    m_open,       \* sessions that opened their connection
    m_paced       \* sessions that sent and paced a chunk

svars == <<cfg, ses_pc, ws, snd_pc, fh, stream, pos, bytes_sent, sent,
           rcv_pc, rcv_end, idle, inq, inbox, served, df, result, files,
           sent_late, recv_late>>
lvars == <<l_paths, l_users, l_pc, l_tasks, l_st, l_slot, l_done,
           l_results, l_reported>>
tvars == <<t_log, t_cfo, t_text>>
pvars == <<p_cfg, p_pc, p_k, p_now, p_t0, p_lag, p_log>>
stvars == <<st_values, st_out>>
mvars == <<m_args, m_pc, m_cfg, m_users, m_open, m_paced>>
xvars == <<pvars, stvars, mvars>>
vars == <<svars, lvars, tvars, xvars>>

----------------------------------------------------------------------------
(* Bounds *)

MaxMsgs == 2          \* messages the server sends in one session
MaxInflight == 1      \* messages buffered on the connection at a time
IdleTicks == 2        \* idle_timeout, in clock ticks
MaxUsers == 3         \* largest users argument of run_load
MaxPaths == 2         \* longest audio_paths list
MaxLog == 3           \* longest log fed to the transcript reduction
MaxSeries == 5        \* longest series given to _print_stats
MaxChunks == 3        \* chunks sent by the paced send loop
MaxLag == 2           \* ticks one chunk's read and send may take
MaxLate == 1          \* ticks asyncio.sleep may overshoot

----------------------------------------------------------------------------
(* Python values *)

PyNone == [t |-> "None"]
PyBool(b) == [t |-> "bool", b |-> b]
PyNum(n) == [t |-> "num", n |-> n]
PyStr(s) == [t |-> "str", s |-> s]
PyList(n) == [t |-> "list", len |-> n]
\* a JSON object with the keys the client looks at; Absent marks a missing key
Absent == [t |-> "absent"]
PyData(text) == [t |-> "dict", text |-> text]
PyMsg(p, tm, d) == [t |-> "dict", is_partial |-> p, time |-> tm, data |-> d]

Sp == " "
Max(a, b) == IF a >= b THEN a ELSE b
Min(a, b) == IF a <= b THEN a ELSE b

\* dict.get(key): the value, or None when the key is missing
Get(v) == IF v = Absent THEN PyNone ELSE v

\* truth value of a Python object (used by `x or {}`)
Truthy(v) ==
    CASE v.t = "None" -> FALSE
      [] v.t = "bool" -> v.b
      [] v.t = "num" -> v.n # 0
      [] v.t = "str" -> v.s # <<>>
      [] v.t = "list" -> v.len > 0
      [] v.t = "dict" -> TRUE

----------------------------------------------------------------------------
(* str.strip and " ".join *)

RECURSIVE LStrip(_)
LStrip(s) == IF s # <<>> /\ Head(s) = Sp THEN LStrip(Tail(s)) ELSE s

RECURSIVE RStrip(_)
RStrip(s) ==
    IF s # <<>> /\ s[Len(s)] = Sp THEN RStrip(SubSeq(s, 1, Len(s) - 1)) ELSE s

Strip(s) == RStrip(LStrip(s))

RECURSIVE Join(_)
Join(ts) ==
    IF ts = <<>> THEN <<>>
    ELSE IF Len(ts) = 1 THEN ts[1]
    ELSE ts[1] \o <<Sp>> \o Join(Tail(ts))

----------------------------------------------------------------------------
(* Message decoding and field extraction *)

\* raw frames: bytes or str whose content is a JSON document or not
Raw(kind, ok, doc) == [kind |-> kind, json |-> ok, doc |-> doc]

\* bytes.decode("utf-8", errors="replace") keeps the document of a frame
Decode(raw) == [raw EXCEPT !.kind = "str"]

\* json.loads result, or None when it raises
_safe_json_loads(raw) ==
    LET r == IF raw.kind = "bytes" THEN Decode(raw) ELSE raw
    IN IF r.json THEN r.doc ELSE PyNone

IsDict(v) == v.t = "dict"

\* data = msg.get("data") or {}
DataOf(msg) == IF Truthy(Get(msg.data)) THEN Get(msg.data) ELSE PyData(Absent)

\* data.get raises AttributeError when data is not a dict
ExtractTextRaises(msg) == ~IsDict(DataOf(msg))

_extract_text(msg) ==
    LET text == Get(DataOf(msg).text)
    IN IF text.t = "str" THEN text.s ELSE <<>>

_extract_is_partial(msg) ==
    LET v == Get(msg.is_partial)
    IN IF v.t = "bool" THEN v ELSE PyNone

\* isinstance(v, (int, float)) holds for bool too; float(True) is 1.0
_extract_model_time(msg) ==
    LET v == Get(msg.time)
    IN CASE v.t = "num" -> PyNum(v.n)
         [] v.t = "bool" -> PyNum(IF v.b THEN 100000 ELSE 0)
         [] OTHER -> PyNone

\* round(x, 4) on a count of 1e-5 s: the nearest multiple of 1e-4 (a decimal
\* tie is decided by the float's binary expansion; the frames used have none)
Round4(n) ==
    LET q == n \div 10
        r == n % 10
    IN IF r >= 5 THEN (q + 1) * 10 ELSE q * 10

\* the row stored by df.loc[len(df)] = [...]
Row(msg) ==
    LET model_time == _extract_model_time(msg)
    IN [is_partial |-> _extract_is_partial(msg),
        latency_s |-> IF model_time # PyNone THEN PyNum(Round4(model_time.n))
                      ELSE PyNone,
        result |-> _extract_text(msg)]

----------------------------------------------------------------------------
(* Reduction of the log (run_single_session, after the connection block) *)

\* a filter that keeps every row not marked partial (None counted as final)
IsFinalRow_NotTrue(r) == r.is_partial # PyBool(TRUE)

\* df["is_partial"] == False, row by row
IsFinalRow(r) == r.is_partial = PyBool(FALSE)

Finals(log) == SelectSeq(log, IsFinalRow)

\* a choice that ignores concat_finals_only
Chosen_WholeLog(log, cfo) == log

\* chosen = finals if not finals.empty else df   (or df when the flag is off)
Chosen(log, cfo) ==
    IF cfo
    THEN IF Finals(log) # <<>> THEN Finals(log) ELSE log
    ELSE log

\* t.strip() is truthy
NonBlank(t) == Strip(t) # <<>>

Texts(rows) == [i \in 1..Len(rows) |-> rows[i].result]

FinalText(log, cfo) == Strip(Join(SelectSeq(Texts(Chosen(log, cfo)), NonBlank)))

IsNumRow(r) == r.latency_s.t = "num"

RECURSIVE SumLat(_)
SumLat(rows) == IF rows = <<>> THEN 0 ELSE Head(rows).latency_s.n + SumLat(Tail(rows))

\* statistics.mean(latencies) as the fraction <<sum, count>>; 0.0 when empty
AvgModelTime(log) ==
    LET lat == SelectSeq(log, IsNumRow)
    IN IF lat = <<>> THEN <<0, 1>> ELSE <<SumLat(lat), Len(lat)>>

\* an output name that leaves the user id out
_output_txt_name_NoUser(audio_path, user_id) ==
    [stem |-> audio_path.stem, suffix |-> <<".txt">>]

\* audio_path.with_suffix(f".{user_id}.txt")
_output_txt_name(audio_path, user_id) ==
    [stem |-> audio_path.stem, suffix |-> <<".", user_id, ".txt">>]

SessionResult(c, log) ==
    LET final_text == FinalText(log, c.concat_finals_only)
    IN [user_id |-> c.user_id,
        avg_model_time_s |-> AvgModelTime(log),
        output_txt_path |-> IF final_text # <<>>
                            THEN _output_txt_name(c.audio, c.user_id)
                            ELSE PyNone,
        rows |-> Len(log)]

----------------------------------------------------------------------------
(* Inputs of one session *)

UserId(i) == <<"user_", i + 1>>

Path(stem, suffix) == [stem |-> stem, suffix |-> suffix]

\* an asset on disk: its path, whether it opens, and its audio data
RawAsset(stem, n) ==
    [stem |-> stem, suffix |-> ".pcm", readable |-> TRUE, nbytes |-> n,
     rate |-> 0, channels |-> 0, width |-> 0]
WavAsset(stem, frames, rate, channels, width) ==
    [stem |-> stem, suffix |-> ".wav", readable |-> TRUE,
     nbytes |-> frames * channels * width,
     rate |-> rate, channels |-> channels, width |-> width]
MissingAsset(stem, suffix) ==
    [stem |-> stem, suffix |-> suffix, readable |-> FALSE, nbytes |-> 0,
     rate |-> 0, channels |-> 0, width |-> 0]

Assets ==
    { RawAsset("a", 3), WavAsset("b", 2, 1000, 1, 2), MissingAsset("c", ".wav") }

Configs ==
    [concat_finals_only : BOOLEAN,
     chunk_duration_ms : {2},
     silence_ms : {0, 3},
     fallback_bytes_per_sec : {1000},
     audio : Assets,
     user_id : {UserId(0)}]

\* frames the server may send
GarbageFrame == Raw("bytes", FALSE, PyNone)
ListFrame == Raw("str", TRUE, PyList(1))
FinalFrame ==
    Raw("str", TRUE, PyMsg(PyBool(FALSE), PyNum(12346), PyData(PyStr(<<"a">>))))
PartialFrame ==
    Raw("str", TRUE, PyMsg(PyBool(TRUE), PyNum(20), PyData(PyStr(<<"b", Sp>>))))
EmptyFrame == Raw("str", TRUE, PyMsg(Absent, Absent, Absent))
WrongTypedFrame ==
    Raw("str", TRUE, PyMsg(PyStr(<<"a">>), PyBool(TRUE), PyData(PyNum(5))))
FalsyDataFrame == Raw("bytes", TRUE, PyMsg(PyNone, PyNone, PyList(0)))
StringDataFrame ==
    Raw("str", TRUE, PyMsg(PyBool(FALSE), Absent, PyStr(<<"a">>)))

Frames ==
    { GarbageFrame, ListFrame, FinalFrame, PartialFrame, EmptyFrame,
      WrongTypedFrame, FalsyDataFrame, StringDataFrame }

----------------------------------------------------------------------------
(* The opened audio stream (send_chunks_real_time) *)

IsWav(a) == a.suffix = ".wav"

\* int(n / d) for d > 0: the quotient truncated towards zero
IntDiv(n, d) == IF n >= 0 THEN n \div d ELSE -((-n) \div d)

\* the chunk size taken as computed, without max(1, ...)
OpenStream_NoClamp(c) ==
    LET a == c.audio
    IN IF IsWav(a)
       THEN LET frames_per_chunk == IntDiv(a.rate * c.chunk_duration_ms, 1000)
            IN [bytes_per_sec |-> a.rate * a.channels * a.width,
                chunk_size |-> frames_per_chunk * a.channels * a.width,
                frame |-> a.channels * a.width,
                wav |-> TRUE]
       ELSE [bytes_per_sec |-> c.fallback_bytes_per_sec,
             chunk_size |->
                 IntDiv(c.fallback_bytes_per_sec * c.chunk_duration_ms, 1000),
             frame |-> 1,
             wav |-> FALSE]

\* bytes_per_sec, chunk_size and the size of one frame
OpenStream(c) ==
    LET a == c.audio
    IN IF IsWav(a)
       THEN LET frames_per_chunk == IntDiv(a.rate * c.chunk_duration_ms, 1000)
            IN [bytes_per_sec |-> a.rate * a.channels * a.width,
                chunk_size |-> Max(1, frames_per_chunk * a.channels * a.width),
                frame |-> a.channels * a.width,
                wav |-> TRUE]
       ELSE [bytes_per_sec |-> c.fallback_bytes_per_sec,
             chunk_size |->
                 Max(1, IntDiv(c.fallback_bytes_per_sec * c.chunk_duration_ms,
                               1000)),
             frame |-> 1,
             wav |-> FALSE]

NoStream == [bytes_per_sec |-> 0, chunk_size |-> 0, frame |-> 0, wav |-> FALSE]

\* len(read_method(chunk_size)) / len(f.read(chunk_size)) at cursor p
ReadLen(st, a, p) ==
    IF st.wav
    THEN LET frames == Max(1, st.chunk_size \div st.frame)
         IN Min(frames * st.frame, a.nbytes - p)
    ELSE Min(st.chunk_size, a.nbytes - p)

\* int(bytes_per_sec * max(0.0, silence_after_sec))
SilenceBytesTotal(st, c) ==
    IntDiv(st.bytes_per_sec * Max(0, c.silence_ms), 1000)

Chunk(kind, n) == [kind |-> kind, len |-> n]

----------------------------------------------------------------------------
(* One session: initial state *)

LoadIdle ==
    /\ l_paths = <<>>
    /\ l_users = 0
    /\ l_pc = "off"
    /\ l_tasks = <<>>
    /\ l_st = <<>>
    /\ l_slot = <<>>
    /\ l_done = <<>>
    /\ l_results = <<>>
    /\ l_reported = <<>>

TextIdle ==
    /\ t_log = <<>>
    /\ t_cfo = FALSE
    /\ t_text = <<>>

PaceIdle ==
    /\ p_cfg = PyNone
    /\ p_pc = "off"
    /\ p_k = 0
    /\ p_now = 0
    /\ p_t0 = 0
    /\ p_lag = 0
    /\ p_log = <<>>

StatsIdle ==
    /\ st_values = <<>>
    /\ st_out = PyNone

MainIdle ==
    /\ m_args = PyNone
    /\ m_pc = "off"
    /\ m_cfg = PyNone
    /\ m_users = <<>>
    /\ m_open = {}
    /\ m_paced = {}

OtherIdle == PaceIdle /\ StatsIdle /\ MainIdle

SessionIdle ==
    /\ ses_pc = "off"
    /\ ws = "none"
    /\ snd_pc = "none"
    /\ fh = "none"
    /\ stream = NoStream
    /\ pos = 0
    /\ bytes_sent = 0
    /\ sent = <<>>
    /\ rcv_pc = "none"
    /\ rcv_end = "none"
    /\ idle = 0
    /\ inq = <<>>
    /\ inbox = <<>>
    /\ served = 0
    /\ df = <<>>
    /\ result = <<>>
    /\ files = <<>>
    /\ sent_late = FALSE
    /\ recv_late = FALSE

\* main() in single mode: run_single_session(cfg, Path(args.audio), "user_1")
Init ==
    /\ cfg \in Configs
    /\ ses_pc = "start"
    /\ ws = "none"
    /\ snd_pc = "none"
    /\ fh = "none"
    /\ stream = NoStream
    /\ pos = 0
    /\ bytes_sent = 0
    /\ sent = <<>>
    /\ rcv_pc = "none"
    /\ rcv_end = "none"
    /\ idle = 0
    /\ inq = <<>>
    /\ inbox = <<>>
    /\ served = 0
    /\ df = <<>>
    /\ result = <<>>
    /\ files = <<>>
    /\ sent_late = FALSE
    /\ recv_late = FALSE
    /\ LoadIdle
    /\ TextIdle
    /\ OtherIdle

----------------------------------------------------------------------------
(* run_single_session *)

\* leaving the `async with` block without closing the connection
CloseWs_Leak(w) == w

\* closing the connection when control leaves the `async with` block
CloseWs(w) == IF w = "open" THEN "closed" ELSE w

\* websockets.connect succeeds; both tasks are created
Connect ==
    /\ ses_pc = "start"
    /\ ws' = "open"
    /\ snd_pc' = "created"
    /\ rcv_pc' = "created"
    /\ ses_pc' = "await_sender"
    /\ UNCHANGED <<cfg, fh, stream, pos, bytes_sent, sent, rcv_end, idle, inq,
                   inbox, served, df, result, files>>
    /\ UNCHANGED <<sent_late, recv_late>>
    /\ UNCHANGED <<lvars, tvars, xvars>>

\* websockets.connect raises (connection refused, DNS failure)
ConnectFail ==
    /\ ses_pc = "start"
    /\ ses_pc' = "raised"
    /\ UNCHANGED <<cfg, ws, snd_pc, fh, stream, pos, bytes_sent, sent, rcv_pc,
                   rcv_end, idle, inq, inbox, served, df, result, files>>
    /\ UNCHANGED <<sent_late, recv_late>>
    /\ UNCHANGED <<lvars, tvars, xvars>>

\* AwaitSender without the following `await receiver`
AwaitSender_NoAwaitReceiver ==
    /\ ses_pc = "await_sender"
    /\ snd_pc \in {"done", "raised"}
    /\ ses_pc' = IF snd_pc = "done" THEN "reduce" ELSE "raised"
    /\ ws' = CloseWs(ws)
    /\ UNCHANGED <<cfg, snd_pc, fh, stream, pos, bytes_sent, sent, rcv_pc,
                   rcv_end, idle, inq, inbox, served, df, result, files>>
    /\ UNCHANGED <<sent_late, recv_late>>
    /\ UNCHANGED <<lvars, tvars, xvars>>

\* AwaitSender swallowing the send task's exception
AwaitSender_Swallow ==
    /\ ses_pc = "await_sender"
    /\ snd_pc \in {"done", "raised"}
    /\ ses_pc' = "await_receiver"
    /\ UNCHANGED <<cfg, ws, snd_pc, fh, stream, pos, bytes_sent, sent, rcv_pc,
                   rcv_end, idle, inq, inbox, served, df, result, files>>
    /\ UNCHANGED <<sent_late, recv_late>>
    /\ UNCHANGED <<lvars, tvars, xvars>>

\* `await sender`: returns when the send task is done, re-raises its exception
\* (the exception leaves the `async with` block, which closes the connection)
AwaitSender ==
    /\ ses_pc = "await_sender"
    /\ snd_pc \in {"done", "raised"}
    /\ IF snd_pc = "done"
       THEN /\ ses_pc' = "await_receiver"
            /\ ws' = ws
       ELSE /\ ses_pc' = "raised"
            /\ ws' = CloseWs(ws)
    /\ UNCHANGED <<cfg, snd_pc, fh, stream, pos, bytes_sent, sent, rcv_pc,
                   rcv_end, idle, inq, inbox, served, df, result, files>>
    /\ UNCHANGED <<sent_late, recv_late>>
    /\ UNCHANGED <<lvars, tvars, xvars>>

\* `await receiver`, then the end of the `async with` block
AwaitReceiver ==
    /\ ses_pc = "await_receiver"
    /\ rcv_pc \in {"done", "raised"}
    /\ ses_pc' = IF rcv_pc = "done" THEN "reduce" ELSE "raised"
    /\ ws' = CloseWs(ws)
    /\ UNCHANGED <<cfg, snd_pc, fh, stream, pos, bytes_sent, sent, rcv_pc,
                   rcv_end, idle, inq, inbox, served, df, result, files>>
    /\ UNCHANGED <<sent_late, recv_late>>
    /\ UNCHANGED <<lvars, tvars, xvars>>

\* latency mean, final text, transcript file, SessionResult
Reduce ==
    /\ ses_pc = "reduce"
    /\ LET final_text == FinalText(df, cfg.concat_finals_only)
       IN files' = IF final_text # <<>>
                   THEN Append(files,
                               [path |-> _output_txt_name(cfg.audio, cfg.user_id),
                                text |-> final_text])
                   ELSE files
    /\ result' = Append(result, SessionResult(cfg, df))
    /\ ses_pc' = "returned"
    /\ UNCHANGED <<cfg, ws, snd_pc, fh, stream, pos, bytes_sent, sent, rcv_pc,
                   rcv_end, idle, inq, inbox, served, df>>
    /\ UNCHANGED <<sent_late, recv_late>>
    /\ UNCHANGED <<lvars, tvars, xvars>>

\* asyncio.run cancels the tasks still pending once main() has raised
LoopShutdown ==
    /\ ses_pc = "raised"
    /\ rcv_pc \in {"created", "waiting"}
    /\ rcv_pc' = "cancelled"
    /\ UNCHANGED <<cfg, ses_pc, ws, snd_pc, fh, stream, pos, bytes_sent, sent,
                   rcv_end, idle, inq, inbox, served, df, result, files>>
    /\ UNCHANGED <<sent_late, recv_late>>
    /\ UNCHANGED <<lvars, tvars, xvars>>

----------------------------------------------------------------------------
(* send_chunks_real_time *)

\* wave.open / open: raises when the asset cannot be opened
SendOpen ==
    /\ snd_pc = "created"
    /\ IF cfg.audio.readable
       THEN /\ snd_pc' = "audio"
            /\ fh' = "open"
            /\ stream' = OpenStream(cfg)
       ELSE /\ snd_pc' = "raised"
            /\ UNCHANGED <<fh, stream>>
    /\ UNCHANGED <<cfg, ses_pc, ws, pos, bytes_sent, sent, rcv_pc, rcv_end,
                   idle, inq, inbox, served, df, result, files>>
    /\ UNCHANGED <<sent_late, recv_late>>
    /\ UNCHANGED <<lvars, tvars, xvars>>

\* one iteration of the audio loop: read, stop on EOF, else send
SendAudio ==
    /\ snd_pc = "audio"
    /\ LET n == ReadLen(stream, cfg.audio, pos)
       IN /\ pos' = pos + n
          /\ IF n = 0
             THEN /\ snd_pc' = "silence"
                  /\ UNCHANGED <<sent, fh>>
             ELSE IF ws = "open"
             THEN /\ sent' = Append(sent, Chunk("audio", n))
                  /\ UNCHANGED <<snd_pc, fh>>
             ELSE /\ snd_pc' = "raised"
                  /\ fh' = "closed"
                  /\ sent' = sent
    /\ UNCHANGED <<cfg, ses_pc, ws, stream, bytes_sent, rcv_pc, rcv_end, idle,
                   inq, inbox, served, df, result, files>>
    /\ sent_late' = (sent_late \/ (sent' # sent /\ rcv_pc = "done"))
    /\ UNCHANGED recv_late
    /\ UNCHANGED <<lvars, tvars, xvars>>

\* the silence loop without min(chunk_size, remainder)
SendSilence_NoTruncation ==
    /\ snd_pc = "silence"
    /\ bytes_sent < SilenceBytesTotal(stream, cfg)
    /\ LET send_len == stream.chunk_size
       IN IF ws = "open"
          THEN /\ sent' = Append(sent, Chunk("silence", send_len))
               /\ bytes_sent' = bytes_sent + send_len
               /\ UNCHANGED <<snd_pc, fh>>
          ELSE /\ snd_pc' = "raised"
               /\ fh' = "closed"
               /\ UNCHANGED <<sent, bytes_sent>>
    /\ UNCHANGED <<cfg, ses_pc, ws, stream, pos, rcv_pc, rcv_end, idle, inq,
                   inbox, served, df, result, files>>
    /\ sent_late' = (sent_late \/ (sent' # sent /\ rcv_pc = "done"))
    /\ UNCHANGED recv_late
    /\ UNCHANGED <<lvars, tvars, xvars>>

\* one iteration of the silence loop
SendSilence ==
    /\ snd_pc = "silence"
    /\ bytes_sent < SilenceBytesTotal(stream, cfg)
    /\ LET send_len ==
               Min(stream.chunk_size, SilenceBytesTotal(stream, cfg) - bytes_sent)
       IN IF ws = "open"
          THEN /\ sent' = Append(sent, Chunk("silence", send_len))
               /\ bytes_sent' = bytes_sent + send_len
               /\ UNCHANGED <<snd_pc, fh>>
          ELSE /\ snd_pc' = "raised"
               /\ fh' = "closed"
               /\ UNCHANGED <<sent, bytes_sent>>
    /\ UNCHANGED <<cfg, ses_pc, ws, stream, pos, rcv_pc, rcv_end, idle, inq,
                   inbox, served, df, result, files>>
    /\ sent_late' = (sent_late \/ (sent' # sent /\ rcv_pc = "done"))
    /\ UNCHANGED recv_late
    /\ UNCHANGED <<lvars, tvars, xvars>>

\* the silence loop is over (or was skipped): the file is closed, the task ends
SendFinish ==
    /\ snd_pc = "silence"
    /\ ~(bytes_sent < SilenceBytesTotal(stream, cfg))
    /\ snd_pc' = "done"
    /\ fh' = "closed"
    /\ UNCHANGED <<cfg, ses_pc, ws, stream, pos, bytes_sent, sent, rcv_pc,
                   rcv_end, idle, inq, inbox, served, df, result, files>>
    /\ UNCHANGED <<sent_late, recv_late>>
    /\ UNCHANGED <<lvars, tvars, xvars>>

----------------------------------------------------------------------------
(* receive_responses *)

\* the task starts and enters its first wait_for(websocket.recv(), idle_timeout)
RecvStart ==
    /\ rcv_pc = "created"
    /\ rcv_pc' = "waiting"
    /\ idle' = 0
    /\ UNCHANGED <<cfg, ses_pc, ws, snd_pc, fh, stream, pos, bytes_sent, sent,
                   rcv_end, inq, inbox, served, df, result, files>>
    /\ UNCHANGED <<sent_late, recv_late>>
    /\ UNCHANGED <<lvars, tvars, xvars>>

\* recv() returns a frame: decode it, drop it or append its row, wait again
RecvMessage ==
    /\ rcv_pc = "waiting"
    /\ inq # <<>>
    /\ LET raw_msg == Head(inq)
           msg == _safe_json_loads(raw_msg)
       IN /\ inq' = Tail(inq)
          /\ inbox' = Append(inbox, raw_msg)
          /\ IF ~IsDict(msg)
             THEN /\ idle' = 0
                  /\ UNCHANGED <<df, rcv_pc>>
             ELSE IF ExtractTextRaises(msg)
             THEN /\ rcv_pc' = "raised"
                  /\ UNCHANGED <<df, idle>>
             ELSE /\ df' = Append(df, Row(msg))
                  /\ idle' = 0
                  /\ UNCHANGED rcv_pc
    /\ UNCHANGED <<cfg, ses_pc, ws, snd_pc, fh, stream, pos, bytes_sent, sent,
                   rcv_end, served, result, files>>
    /\ recv_late' = (recv_late \/ (snd_pc = "done"))
    /\ UNCHANGED sent_late
    /\ UNCHANGED <<lvars, tvars, xvars>>

\* RecvTimeout that starts a new wait instead of leaving the loop
RecvTimeout_Continue ==
    /\ rcv_pc = "waiting"
    /\ idle >= IdleTicks
    /\ idle' = 0
    /\ UNCHANGED <<cfg, ses_pc, ws, snd_pc, fh, stream, pos, bytes_sent, sent,
                   rcv_pc, rcv_end, inq, inbox, served, df, result, files>>
    /\ UNCHANGED <<sent_late, recv_late>>
    /\ UNCHANGED <<lvars, tvars, xvars>>

\* RecvTimeout that cancels a send task still running
RecvTimeout_CancelsSender ==
    /\ rcv_pc = "waiting"
    /\ idle >= IdleTicks
    /\ rcv_pc' = "done"
    /\ rcv_end' = "timeout"
    /\ snd_pc' = IF snd_pc \in {"created", "audio", "silence"} THEN "raised"
                 ELSE snd_pc
    /\ UNCHANGED <<cfg, ses_pc, ws, fh, stream, pos, bytes_sent, sent,
                   idle, inq, inbox, served, df, result, files>>
    /\ UNCHANGED <<sent_late, recv_late>>
    /\ UNCHANGED <<lvars, tvars, xvars>>

\* asyncio.TimeoutError: idle_timeout elapsed in this wait
RecvTimeout ==
    /\ rcv_pc = "waiting"
    /\ idle >= IdleTicks
    /\ rcv_pc' = "done"
    /\ rcv_end' = "timeout"
    /\ UNCHANGED <<cfg, ses_pc, ws, snd_pc, fh, stream, pos, bytes_sent, sent,
                   idle, inq, inbox, served, df, result, files>>
    /\ UNCHANGED <<sent_late, recv_late>>
    /\ UNCHANGED <<lvars, tvars, xvars>>

\* ConnectionClosed: the connection is closed and its buffer is drained
RecvClosed ==
    /\ rcv_pc = "waiting"
    /\ ws \in {"peer_closed", "closed"}
    /\ inq = <<>>
    /\ rcv_pc' = "done"
    /\ rcv_end' = ws
    /\ UNCHANGED <<cfg, ses_pc, ws, snd_pc, fh, stream, pos, bytes_sent, sent,
                   idle, inq, inbox, served, df, result, files>>
    /\ UNCHANGED <<sent_late, recv_late>>
    /\ UNCHANGED <<lvars, tvars, xvars>>

----------------------------------------------------------------------------
(* The server, the network and the clock *)

ServerSend(m) ==
    /\ ws = "open"
    /\ served < MaxMsgs
    /\ Len(inq) < MaxInflight
    /\ inq' = Append(inq, m)
    /\ served' = served + 1
    /\ UNCHANGED <<cfg, ses_pc, ws, snd_pc, fh, stream, pos, bytes_sent, sent,
                   rcv_pc, rcv_end, idle, inbox, df, result, files>>
    /\ UNCHANGED <<sent_late, recv_late>>
    /\ UNCHANGED <<lvars, tvars, xvars>>

\* the peer closes the connection, or the network drops it
PeerClose ==
    /\ ws = "open"
    /\ ws' = "peer_closed"
    /\ UNCHANGED <<cfg, ses_pc, snd_pc, fh, stream, pos, bytes_sent, sent,
                   rcv_pc, rcv_end, idle, inq, inbox, served, df, result, files>>
    /\ UNCHANGED <<sent_late, recv_late>>
    /\ UNCHANGED <<lvars, tvars, xvars>>

\* time passes; a pending wait_for cannot outlive its timeout
Tick ==
    /\ rcv_pc = "waiting"
    /\ idle < IdleTicks
    /\ idle' = idle + 1
    /\ UNCHANGED <<cfg, ses_pc, ws, snd_pc, fh, stream, pos, bytes_sent, sent,
                   rcv_pc, rcv_end, inq, inbox, served, df, result, files>>
    /\ UNCHANGED <<sent_late, recv_late>>
    /\ UNCHANGED <<lvars, tvars, xvars>>

Next ==
    \/ Connect
    \/ ConnectFail
    \/ AwaitSender
    \/ AwaitReceiver
    \/ Reduce
    \/ LoopShutdown
    \/ SendOpen
    \/ SendAudio
    \/ SendSilence
    \/ SendFinish
    \/ RecvStart
    \/ RecvMessage
    \/ RecvTimeout
    \/ RecvClosed
    \/ \E m \in Frames : ServerSend(m)
    \/ PeerClose
    \/ Tick

Spec == Init /\ [][Next]_vars

----------------------------------------------------------------------------
(* run_load under asyncio.run: sessions are taken as a whole *)

DefaultCfg ==
    [concat_finals_only |-> TRUE, chunk_duration_ms |-> 2, silence_ms |-> 0,
     fallback_bytes_per_sec |-> 1000, audio |-> RawAsset("a", 3),
     user_id |-> UserId(0)]

PathSet == { Path("a", ".wav"), Path("b", ".pcm") }

PathLists == UNION { [1..n -> PathSet] : n \in 0..MaxPaths }

InitLoad ==
    /\ l_paths \in PathLists
    /\ l_users \in 0..MaxUsers
    /\ l_pc = "start"
    /\ l_tasks = <<>>
    /\ l_st = <<>>
    /\ l_slot = <<>>
    /\ l_done = <<>>
    /\ l_results = <<>>
    /\ l_reported = <<>>
    /\ cfg = DefaultCfg
    /\ SessionIdle
    /\ TextIdle
    /\ OtherIdle

\* audio_paths[i % len(audio_paths)], i counted from 0 (sequences from 1)
AssetFor(paths, i) == paths[(i % Len(paths)) + 1]

\* the coroutine run_single_session(cfg, audio_path, user_id) of loop index i
SessionTask(paths, i) == [audio_path |-> AssetFor(paths, i), user_id |-> UserId(i)]

\* results collected in the order the sessions finished
GatherResults_FinishOrder(slot, done, n) == [k \in 1..n |-> slot[done[k]]]

\* the list asyncio.gather returns: one entry per awaitable, in argument order
GatherResults(slot, done, n) == [k \in 1..n |-> slot[k]]

\* the coroutines are built before the asset list is checked
RunLoadStart_CheckAfterLaunch ==
    /\ l_pc = "start"
    /\ l_tasks' = [k \in 1..l_users |->
                     IF l_paths = <<>>
                     THEN [audio_path |-> PyNone, user_id |-> UserId(k - 1)]
                     ELSE SessionTask(l_paths, k - 1)]
    /\ l_st' = [k \in 1..l_users |-> "pending"]
    /\ l_slot' = [k \in 1..l_users |-> PyNone]
    /\ l_pc' = IF l_paths = <<>> THEN "raised" ELSE "gather"
    /\ UNCHANGED <<l_paths, l_users, l_done, l_results, l_reported>>
    /\ UNCHANGED <<svars, tvars, xvars>>

\* the check of the asset list, the for loop, and the call of gather
RunLoadStart ==
    /\ l_pc = "start"
    /\ IF l_paths = <<>>
       THEN /\ l_pc' = "raised"
            /\ UNCHANGED <<l_tasks, l_st, l_slot>>
       ELSE /\ l_tasks' = [k \in 1..l_users |-> SessionTask(l_paths, k - 1)]
            /\ l_st' = [k \in 1..l_users |-> "pending"]
            /\ l_slot' = [k \in 1..l_users |-> PyNone]
            /\ l_pc' = "gather"
    /\ UNCHANGED <<l_paths, l_users, l_done, l_results, l_reported>>
    /\ UNCHANGED <<svars, tvars, xvars>>

LoopRunning == l_pc \in {"gather", "raised"}

\* session k connects and starts its two tasks
SessionStart(k) ==
    /\ LoopRunning
    /\ k \in DOMAIN l_st
    /\ l_st[k] = "pending"
    /\ l_st' = [l_st EXCEPT ![k] = "running"]
    /\ UNCHANGED <<l_paths, l_users, l_pc, l_tasks, l_slot, l_done, l_results,
                   l_reported>>
    /\ UNCHANGED <<svars, tvars, xvars>>

\* session k returns its SessionResult (with or without a transcript file)
SessionReturn(k, has_text) ==
    /\ LoopRunning
    /\ k \in DOMAIN l_st
    /\ l_st[k] = "running"
    /\ l_st' = [l_st EXCEPT ![k] = "returned"]
    /\ l_slot' = [l_slot EXCEPT ![k] =
           [user_id |-> l_tasks[k].user_id,
            output_txt_path |->
                IF has_text
                THEN _output_txt_name(l_tasks[k].audio_path, l_tasks[k].user_id)
                ELSE PyNone]]
    /\ l_done' = Append(l_done, k)
    /\ UNCHANGED <<l_paths, l_users, l_pc, l_tasks, l_results, l_reported>>
    /\ UNCHANGED <<svars, tvars, xvars>>

\* session k raises: connect failed, or one of its tasks raised
SessionRaise(k) ==
    /\ LoopRunning
    /\ k \in DOMAIN l_st
    /\ l_st[k] \in {"pending", "running"}
    /\ l_st' = [l_st EXCEPT ![k] = "raised"]
    /\ l_done' = Append(l_done, k)
    /\ UNCHANGED <<l_paths, l_users, l_pc, l_tasks, l_slot, l_results,
                   l_reported>>
    /\ UNCHANGED <<svars, tvars, xvars>>

\* gather(..., return_exceptions=False) returns once every session returned
GatherReturn ==
    /\ l_pc = "gather"
    /\ \A k \in DOMAIN l_st : l_st[k] = "returned"
    /\ l_results' = GatherResults(l_slot, l_done, l_users)
    /\ l_pc' = "report"
    /\ UNCHANGED <<l_paths, l_users, l_tasks, l_st, l_slot, l_done, l_reported>>
    /\ UNCHANGED <<svars, tvars, xvars>>

\* gather(..., return_exceptions=False) re-raises a session's exception in
\* run_load, which has no handler: run_load and main() end with it
GatherRaise ==
    /\ l_pc = "gather"
    /\ \E k \in DOMAIN l_st : l_st[k] = "raised"
    /\ l_pc' = "raised"
    /\ UNCHANGED <<l_paths, l_users, l_tasks, l_st, l_slot, l_done, l_results,
                   l_reported>>
    /\ UNCHANGED <<svars, tvars, xvars>>

\* the per-user lines and the aggregate block are printed
Report ==
    /\ l_pc = "report"
    /\ l_reported' = [k \in 1..Len(l_results) |-> l_results[k].user_id]
    /\ l_pc' = "done"
    /\ UNCHANGED <<l_paths, l_users, l_tasks, l_st, l_slot, l_done, l_results>>
    /\ UNCHANGED <<svars, tvars, xvars>>

\* asyncio.run, main() having raised, cancels every task still pending
LoadShutdown ==
    /\ l_pc = "raised"
    /\ l_st' = [k \in DOMAIN l_st |->
                   IF l_st[k] \in {"pending", "running"} THEN "cancelled"
                   ELSE l_st[k]]
    /\ l_pc' = "stopped"
    /\ UNCHANGED <<l_paths, l_users, l_tasks, l_slot, l_done, l_results,
                   l_reported>>
    /\ UNCHANGED <<svars, tvars, xvars>>

NextLoad ==
    \/ RunLoadStart
    \/ \E k \in 1..MaxUsers : SessionStart(k)
    \/ \E k \in 1..MaxUsers, has_text \in BOOLEAN : SessionReturn(k, has_text)
    \/ \E k \in 1..MaxUsers : SessionRaise(k)
    \/ GatherReturn
    \/ GatherRaise
    \/ Report
    \/ LoadShutdown

SpecLoad == InitLoad /\ [][NextLoad]_vars

----------------------------------------------------------------------------
(* The transcript reduction applied to logs of every shape (SpecText) *)

TextSet == { <<>>, <<Sp>>, <<"a", Sp>>, <<Sp, "b">> }

LogRows ==
    [is_partial : {PyBool(FALSE), PyBool(TRUE), PyNone},
     latency_s : {PyNone},
     result : TextSet]

InitText ==
    /\ t_log = <<>>
    /\ t_cfo \in BOOLEAN
    /\ t_text = FinalText(<<>>, t_cfo)
    /\ cfg = DefaultCfg
    /\ SessionIdle
    /\ LoadIdle
    /\ OtherIdle

InsertAt(log, i, r) == SubSeq(log, 1, i - 1) \o <<r>> \o SubSeq(log, i, Len(log))
RemoveAt(log, i) == SubSeq(log, 1, i - 1) \o SubSeq(log, i + 1, Len(log))
SwapAt(log, i) ==
    [j \in 1..Len(log) |->
        IF j = i THEN log[i + 1] ELSE IF j = i + 1 THEN log[i] ELSE log[j]]

\* the receive loop stored one more row; the log is reduced
TextAppend(r) ==
    /\ Len(t_log) < MaxLog
    /\ t_log' = Append(t_log, r)
    /\ t_text' = FinalText(t_log', t_cfo)
    /\ UNCHANGED t_cfo
    /\ UNCHANGED <<svars, lvars, xvars>>

\* the same log with one more row at position i; the log is reduced
TextInsert(i, r) ==
    /\ Len(t_log) < MaxLog
    /\ i \in 1..Len(t_log)
    /\ t_log' = InsertAt(t_log, i, r)
    /\ t_text' = FinalText(t_log', t_cfo)
    /\ UNCHANGED t_cfo
    /\ UNCHANGED <<svars, lvars, xvars>>

\* the same log without its row i; the log is reduced
TextRemove(i) ==
    /\ i \in 1..Len(t_log)
    /\ t_log' = RemoveAt(t_log, i)
    /\ t_text' = FinalText(t_log', t_cfo)
    /\ UNCHANGED t_cfo
    /\ UNCHANGED <<svars, lvars, xvars>>

\* the same log with rows i and i+1 exchanged; the log is reduced
TextSwap(i) ==
    /\ i \in 1..(Len(t_log) - 1)
    /\ t_log[i] # t_log[i + 1]
    /\ t_log' = SwapAt(t_log, i)
    /\ t_text' = FinalText(t_log', t_cfo)
    /\ UNCHANGED t_cfo
    /\ UNCHANGED <<svars, lvars, xvars>>

NextText ==
    \/ \E r \in LogRows : TextAppend(r)
    \/ \E i \in 1..MaxLog, r \in LogRows : TextInsert(i, r)
    \/ \E i \in 1..MaxLog : TextRemove(i)
    \/ \E i \in 1..MaxLog : TextSwap(i)

SpecText == InitText /\ [][NextText]_vars

----------------------------------------------------------------------------
(* The send task alone on an open connection (SpecSend) *)

SendAssets ==
    { RawAsset("a", 3), RawAsset("e", 0),
      WavAsset("b", 2, 1000, 1, 2), WavAsset("m", 3, 1000, 1, 1),
      WavAsset("s", 2, 100, 1, 2), WavAsset("t", 2, 100, 2, 2),
      MissingAsset("c", ".wav"), MissingAsset("d", ".pcm") }

SendConfigs ==
    [concat_finals_only : {TRUE},
     chunk_duration_ms : {2, 5},
     silence_ms : {0, 3, 10},
     fallback_bytes_per_sec : {1000},
     audio : SendAssets,
     user_id : {UserId(0)}]

\* the state Connect leaves, for any of SendConfigs
InitSend ==
    /\ cfg \in SendConfigs
    /\ ses_pc = "await_sender"
    /\ ws = "open"
    /\ snd_pc = "created"
    /\ fh = "none"
    /\ stream = NoStream
    /\ pos = 0
    /\ bytes_sent = 0
    /\ sent = <<>>
    /\ rcv_pc = "created"
    /\ rcv_end = "none"
    /\ idle = 0
    /\ inq = <<>>
    /\ inbox = <<>>
    /\ served = 0
    /\ df = <<>>
    /\ result = <<>>
    /\ files = <<>>
    /\ sent_late = FALSE
    /\ recv_late = FALSE
    /\ LoadIdle
    /\ TextIdle
    /\ OtherIdle

NextSend ==
    \/ SendOpen
    \/ SendAudio
    \/ SendSilence
    \/ SendFinish
    \/ PeerClose

SpecSend == InitSend /\ [][NextSend]_vars

----------------------------------------------------------------------------
(* The send task over every kind of setting, scheduled fairly (SpecTerm) *)

\* a WAV whose data ends in the middle of a frame
TruncatedWav(stem, nbytes, rate, channels, width) ==
    [WavAsset(stem, 0, rate, channels, width) EXCEPT !.nbytes = nbytes]

TermAssets ==
    SendAssets \cup { TruncatedWav("u", 5, 1000, 1, 2), WavAsset("z", 2, 0, 1, 2) }

TermConfigs ==
    [concat_finals_only : {TRUE},
     chunk_duration_ms : {-1, 0, 2},
     silence_ms : {-3, 0, 10},
     fallback_bytes_per_sec : {-1000, 0, 1000},
     audio : TermAssets,
     user_id : {UserId(0)}]

\* the state Connect leaves, for any of TermConfigs
InitTerm ==
    /\ cfg \in TermConfigs
    /\ ses_pc = "await_sender"
    /\ ws = "open"
    /\ snd_pc = "created"
    /\ fh = "none"
    /\ stream = NoStream
    /\ pos = 0
    /\ bytes_sent = 0
    /\ sent = <<>>
    /\ rcv_pc = "created"
    /\ rcv_end = "none"
    /\ idle = 0
    /\ inq = <<>>
    /\ inbox = <<>>
    /\ served = 0
    /\ df = <<>>
    /\ result = <<>>
    /\ files = <<>>
    /\ sent_late = FALSE
    /\ recv_late = FALSE
    /\ LoadIdle
    /\ TextIdle
    /\ OtherIdle

\* one step of the send task
SendStep == SendOpen \/ SendAudio \/ SendSilence \/ SendFinish

\* every await of the send task returns (the send completes or raises, the
\* sleep is finite) and the event loop then resumes the task
SpecTerm == InitTerm /\ [][NextSend]_vars /\ WF_vars(SendStep)

----------------------------------------------------------------------------
(* The send loop with a clock (SpecPace): t0, read, send, _wait_remaining *)

\* Pace factors count quanta of 5e-10, so that values under the floor 1e-9 of
\* _wait_remaining exist: MinPace is that floor. Durations count ticks of
\* 1/TickScale of the time one byte takes at 1 byte/s and a pace of one
\* quantum; every delay below is then a whole number of ticks.
MinPace == 2
Paces == {0, 1, 2, 4}
Rates == {0, 1, 2}
ChunkLens == {1, 2}
TickScale == 4 * 2

PaceConfigs ==
    [bytes_per_sec : Rates,
     pace_factor : Paces,
     chunks : UNION { [1..n -> ChunkLens] : n \in 1..MaxChunks }]

\* ideal_delay = (bytes_sent / max(1, bytes_per_sec)) / max(1e-9, pace_factor)
IdealDelay(bytes, bytes_per_sec, pace_factor) ==
    (bytes * TickScale) \div (Max(1, bytes_per_sec) * Max(MinPace, pace_factor))

\* _wait_remaining with the sleep guard removed
_wait_remaining_Signed(t0, bytes, bytes_per_sec, pace_factor, now) ==
    IdealDelay(bytes, bytes_per_sec, pace_factor) - (now - t0)

\* _wait_remaining: the sleep it requests at time `now`, 0 when it does not sleep
_wait_remaining(t0, bytes, bytes_per_sec, pace_factor, now) ==
    LET ideal_delay == IdealDelay(bytes, bytes_per_sec, pace_factor)
        elapsed == now - t0
        remaining == ideal_delay - elapsed
    IN IF remaining > 0 THEN remaining ELSE 0

InitPace ==
    /\ p_cfg \in PaceConfigs
    /\ p_pc = "t0"
    /\ p_k = 1
    /\ p_now = 0
    /\ p_t0 = 0
    /\ p_lag = 0
    /\ p_log = <<>>
    /\ cfg = DefaultCfg
    /\ StatsIdle
    /\ MainIdle
    /\ SessionIdle
    /\ LoadIdle
    /\ TextIdle

LastEntry == p_log[Len(p_log)]
SetLast(e) == [p_log EXCEPT ![Len(p_log)] = e]

\* the log once chunk k is taken in hand at time now; overran records that a
\* chunk before k took longer than its ideal delay
Began(k, len, now) ==
    LET before == IF p_log = <<>> THEN <<>> ELSE <<LastEntry>>
        late == /\ p_log # <<>>
                /\ \/ LastEntry.overran
                   \/ LastEntry.elapsed
                        > IdealDelay(LastEntry.len, p_cfg.bytes_per_sec,
                                     p_cfg.pace_factor)
    IN Append(before, [k |-> k, len |-> len, began |-> now, at |-> 0,
                       elapsed |-> 0, wait |-> 0, sent |-> FALSE,
                       waited |-> FALSE, overran |-> late])

\* a loop that takes t0 once, before the first chunk
PaceT0_Once ==
    /\ p_pc = "t0"
    /\ p_k <= Len(p_cfg.chunks)
    /\ p_t0' = IF p_k = 1 THEN p_now ELSE p_t0
    /\ p_lag' = 0
    /\ p_log' = Began(p_k, p_cfg.chunks[p_k], p_now)
    /\ p_pc' = "send"
    /\ UNCHANGED <<p_cfg, p_k, p_now>>
    /\ UNCHANGED <<svars, lvars, tvars, stvars, mvars>>

\* top of the loop body: t0 = time.perf_counter(), then the read
PaceT0 ==
    /\ p_pc = "t0"
    /\ p_k <= Len(p_cfg.chunks)
    /\ p_t0' = p_now
    /\ p_lag' = 0
    /\ p_log' = Began(p_k, p_cfg.chunks[p_k], p_now)
    /\ p_pc' = "send"
    /\ UNCHANGED <<p_cfg, p_k, p_now>>
    /\ UNCHANGED <<svars, lvars, tvars, stvars, mvars>>

\* the read and the send take time (disk, event loop, socket buffer)
PaceLag ==
    /\ p_pc \in {"send", "wait"}
    /\ p_lag < MaxLag
    /\ p_now' = p_now + 1
    /\ p_lag' = p_lag + 1
    /\ UNCHANGED <<p_cfg, p_pc, p_k, p_t0, p_log>>
    /\ UNCHANGED <<svars, lvars, tvars, stvars, mvars>>

\* await websocket.send(chunk)
PaceSend ==
    /\ p_pc = "send"
    /\ p_log' = SetLast([LastEntry EXCEPT !.at = p_now, !.sent = TRUE])
    /\ p_pc' = "wait"
    /\ UNCHANGED <<p_cfg, p_k, p_now, p_t0, p_lag>>
    /\ UNCHANGED <<svars, lvars, tvars, stvars, mvars>>

\* await _wait_remaining(t0, len(chunk), bytes_per_sec, pace_factor)
PaceWait ==
    /\ p_pc = "wait"
    /\ LET w == _wait_remaining(p_t0, LastEntry.len, p_cfg.bytes_per_sec,
                                p_cfg.pace_factor, p_now)
       IN /\ p_log' = SetLast([LastEntry EXCEPT !.elapsed = p_now - p_t0,
                                                !.wait = w, !.waited = TRUE])
          /\ IF w > 0
             THEN /\ p_pc' = "sleep"
                  /\ p_k' = p_k
             ELSE /\ p_pc' = "t0"
                  /\ p_k' = p_k + 1
    /\ UNCHANGED <<p_cfg, p_now, p_t0, p_lag>>
    /\ UNCHANGED <<svars, lvars, tvars, stvars, mvars>>

\* asyncio.sleep(remaining) returns, no earlier than asked
PaceWake ==
    /\ p_pc = "sleep"
    /\ \E late \in 0..MaxLate : p_now' = p_now + LastEntry.wait + late
    /\ p_pc' = "t0"
    /\ p_k' = p_k + 1
    /\ UNCHANGED <<p_cfg, p_t0, p_lag, p_log>>
    /\ UNCHANGED <<svars, lvars, tvars, stvars, mvars>>

\* the source is exhausted: the loop ends
PaceEnd ==
    /\ p_pc = "t0"
    /\ p_k > Len(p_cfg.chunks)
    /\ p_pc' = "done"
    /\ UNCHANGED <<p_cfg, p_k, p_now, p_t0, p_lag, p_log>>
    /\ UNCHANGED <<svars, lvars, tvars, stvars, mvars>>

NextPace ==
    \/ PaceT0
    \/ PaceLag
    \/ PaceSend
    \/ PaceWait
    \/ PaceWake
    \/ PaceEnd

SpecPace == InitPace /\ [][NextPace]_vars

----------------------------------------------------------------------------
(* main (SpecMain): the command line, the ClientConfig, the dispatch *)

\* --audios: None when not given, else the string as split(",") cuts it, one
\* string per field
Split(fields) == [t |-> "str", fields |-> fields]
AudiosArgs ==
    { PyNone, Split(<< <<>> >>), Split(<< <<Sp>>, <<>> >>), Split(<< <<"a">> >>),
      Split(<< <<Sp, "a">>, <<>>, <<"b", Sp>> >>) }

Args ==
    [pace : {-2, 0, 1, 2, 4},
     audio : {PyNone, PyStr(<<>>), PyStr(<<"a">>)},
     audios : AudiosArgs,
     users : (-1)..MaxUsers,
     concat_tudo : BOOLEAN,
     concat_finais_only : BOOLEAN]

\* truth value of args.audios: given, and the unsplit string is not empty
AudiosGiven(arg) == arg.t # "None" /\ arg.fields # << <<>> >>

\* [Path(x.strip()) for x in args.audios.split(",") if x.strip()]
RECURSIVE AudioPaths(_)
AudioPaths(fields) ==
    IF fields = <<>> THEN <<>>
    ELSE (IF Strip(Head(fields)) # <<>> THEN <<Strip(Head(fields))>> ELSE <<>>)
         \o AudioPaths(Tail(fields))

InitMain ==
    /\ m_args \in Args
    /\ m_pc = "start"
    /\ m_cfg = PyNone
    /\ m_users = <<>>
    /\ m_open = {}
    /\ m_paced = {}
    /\ cfg = DefaultCfg
    /\ PaceIdle
    /\ StatsIdle
    /\ SessionIdle
    /\ LoadIdle
    /\ TextIdle

\* the concat flags and ClientConfig(...): the arguments are taken as given
MainConfig ==
    /\ m_pc = "start"
    /\ m_cfg' = [pace_factor |-> m_args.pace,
                 concat_finals_only |->
                     IF m_args.concat_finais_only THEN TRUE
                     ELSE ~m_args.concat_tudo]
    /\ m_pc' = "dispatch"
    /\ UNCHANGED <<m_args, m_users, m_open, m_paced>>
    /\ UNCHANGED <<svars, lvars, tvars, pvars, stvars>>

\* single mode: run_single_session(cfg, Path(args.audio), "user_1")
MainSingle ==
    /\ m_pc = "dispatch"
    /\ Truthy(m_args.audio)
    /\ m_users' = <<UserId(0)>>
    /\ m_pc' = "single"
    /\ UNCHANGED <<m_args, m_cfg, m_open, m_paced>>
    /\ UNCHANGED <<svars, lvars, tvars, pvars, stvars>>

\* load mode: run_load(cfg, audio_paths, users=max(1, args.users))
MainLoad ==
    /\ m_pc = "dispatch"
    /\ ~Truthy(m_args.audio)
    /\ AudiosGiven(m_args.audios)
    /\ IF AudioPaths(m_args.audios.fields) = <<>>
       THEN /\ m_pc' = "raised"
            /\ m_users' = m_users
       ELSE /\ m_pc' = "load"
            /\ m_users' = [k \in 1..Max(1, m_args.users) |-> UserId(k - 1)]
    /\ UNCHANGED <<m_args, m_cfg, m_open, m_paced>>
    /\ UNCHANGED <<svars, lvars, tvars, pvars, stvars>>

\* neither --audio nor --audios: SystemExit
MainExit ==
    /\ m_pc = "dispatch"
    /\ ~Truthy(m_args.audio)
    /\ ~AudiosGiven(m_args.audios)
    /\ m_pc' = "exit"
    /\ UNCHANGED <<m_args, m_cfg, m_users, m_open, m_paced>>
    /\ UNCHANGED <<svars, lvars, tvars, pvars, stvars>>

\* session k opens its connection
MainConnect(k) ==
    /\ m_pc \in {"single", "load"}
    /\ k \in DOMAIN m_users
    /\ k \notin m_open
    /\ m_open' = m_open \cup {k}
    /\ UNCHANGED <<m_args, m_pc, m_cfg, m_users, m_paced>>
    /\ UNCHANGED <<svars, lvars, tvars, pvars, stvars>>

\* session k sends a chunk and calls _wait_remaining with cfg.pace_factor
MainPaced(k) ==
    /\ k \in m_open
    /\ k \notin m_paced
    /\ m_paced' = m_paced \cup {k}
    /\ UNCHANGED <<m_args, m_pc, m_cfg, m_users, m_open>>
    /\ UNCHANGED <<svars, lvars, tvars, pvars, stvars>>

NextMain ==
    \/ MainConfig
    \/ MainSingle
    \/ MainLoad
    \/ MainExit
    \/ \E k \in 1..(MaxUsers + 1) : MainConnect(k)
    \/ \E k \in 1..(MaxUsers + 1) : MainPaced(k)

SpecMain == InitMain /\ [][NextMain]_vars

----------------------------------------------------------------------------
(* _print_stats (SpecStats) *)

\* Values are whole milliseconds; a statistic is a fraction <<num, den>> of
\* milliseconds, and a printed field (format 6.3f, in seconds) is that
\* fraction rounded to the nearest millisecond.
StatValues == {1000, 2000, 3000, 4000, 5000}
Series == UNION { [1..n -> StatValues] : n \in 0..MaxSeries }

RECURSIVE Insert(_, _)
Insert(x, sorted) ==
    IF sorted = <<>> THEN <<x>>
    ELSE IF x <= Head(sorted) THEN <<x>> \o sorted
    ELSE <<Head(sorted)>> \o Insert(x, Tail(sorted))

RECURSIVE Sorted(_)
Sorted(values) ==
    IF values = <<>> THEN <<>> ELSE Insert(Head(values), Sorted(Tail(values)))

RECURSIVE Sum(_)
Sum(values) == IF values = <<>> THEN 0 ELSE Head(values) + Sum(Tail(values))

\* statistics.mean
Mean(values) == <<Sum(values), Len(values)>>

\* statistics.median: the middle value, or the mean of the two middle ones
Median(values) ==
    LET data == Sorted(values)
        n == Len(data)
    IN IF n % 2 = 1 THEN <<data[(n \div 2) + 1], 1>>
       ELSE <<data[n \div 2] + data[(n \div 2) + 1], 2>>

\* statistics.quantiles(values, n=100)[94], method "exclusive", for two or
\* more values; data is indexed from 0 in the code, from 1 here
Quantile95(values) ==
    LET data == Sorted(values)
        ld == Len(data)
        m == ld + 1
        j == Max(1, Min(ld - 1, (95 * m) \div 100))
        delta == 95 * m - j * 100
    IN <<data[j] * (100 - delta) + data[j + 1] * delta, 100>>

\* the p95 branch of _print_stats
P95(values) ==
    IF Len(values) >= 2 THEN Quantile95(values) ELSE <<values[1], 1>>

\* format 6.3f of a fraction of milliseconds, shown in seconds
Fmt3(q) == (2 * q[1] + q[2]) \div (2 * q[2])

StatsLine(mean, median, lo, hi, p95) ==
    [t |-> "stats", media |-> mean, mediana |-> median, min |-> lo,
     max |-> hi, p95 |-> p95]

NoValues == [t |-> "sem valores"]

\* the smallest and the largest value: min(values), max(values)
Lowest(values) == Sorted(values)[1]
Highest(values) == Sorted(values)[Len(values)]

\* _print_stats that prints zeros for an empty series
_print_stats_EmptyAsZeros(values) ==
    IF values = <<>> THEN StatsLine(0, 0, 0, 0, 0)
    ELSE StatsLine(Fmt3(Mean(values)), Fmt3(Median(values)), Lowest(values),
                   Highest(values), Fmt3(P95(values)))

\* what _print_stats prints for a series
_print_stats(values) ==
    IF values = <<>> THEN NoValues
    ELSE StatsLine(Fmt3(Mean(values)), Fmt3(Median(values)), Lowest(values),
                   Highest(values), Fmt3(P95(values)))

InitStats ==
    /\ st_values \in Series
    /\ st_out = PyNone
    /\ cfg = DefaultCfg
    /\ PaceIdle
    /\ MainIdle
    /\ SessionIdle
    /\ LoadIdle
    /\ TextIdle

PrintStats ==
    /\ st_out = PyNone
    /\ st_out' = _print_stats(st_values)
    /\ UNCHANGED st_values
    /\ UNCHANGED <<svars, lvars, tvars, pvars, mvars>>

NextStats == PrintStats

SpecStats == InitStats /\ [][NextStats]_vars

----------------------------------------------------------------------------
(* Properties of one session (Spec) *)

RECURSIVE SentBytes(_, _)
SentBytes(chunks, kind) ==
    IF chunks = <<>> THEN 0
    ELSE (IF Head(chunks).kind = kind THEN Head(chunks).len ELSE 0)
         + SentBytes(Tail(chunks), kind)

\* every audio byte of the asset and the whole silence tail are on the wire
FullySent ==
    /\ SentBytes(sent, "audio") = cfg.audio.nbytes
    /\ SentBytes(sent, "silence") = SilenceBytesTotal(stream, cfg)

\* a step that changes the state of the (already created) receive task
ReceiverMoved ==
    /\ rcv_pc # "none"
    /\ rcv_pc' # rcv_pc \/ rcv_end' # rcv_end \/ inbox' # inbox \/ df' # df

\* C1: the SessionResult is created, and the log reduced, only after both the
\* send task and the receive task have finished; the end of the send task
\* changes nothing in the receive task, which afterwards still reads frames
\* and ends by its idle timeout or by the peer closing.
C1_ResultAfterBothTasks ==
    [][ /\ (ses_pc' \in {"reduce", "returned"} \/ result' # <<>>
              => snd_pc' = "done" /\ rcv_pc' = "done")
        /\ (snd_pc # "done" /\ snd_pc' = "done"
              => UNCHANGED <<rcv_pc, rcv_end, idle, inq, inbox, df>>)
        /\ (snd_pc = "done" /\ rcv_pc = "waiting" /\ rcv_pc' = "done"
              => rcv_end' \in {"timeout", "peer_closed"})
      ]_vars

C1_Witness ==
    /\ ses_pc = "returned"
    /\ result # <<>>
    /\ recv_late
    /\ rcv_end = "timeout"

C3_SendRunsToCompletion ==
    [][ /\ (ReceiverMoved => UNCHANGED <<snd_pc, fh, stream, pos, bytes_sent, sent>>)
        /\ (snd_pc' = "done" => FullySent')
        /\ (snd_pc # "raised" /\ snd_pc' = "raised"
              => ~cfg.audio.readable \/ ws # "open")
        /\ snd_pc' \in {"none", "created", "audio", "silence", "done", "raised"}
        /\ (snd_pc \in {"created", "audio", "silence"}
              => ENABLED (SendOpen \/ SendAudio \/ SendSilence \/ SendFinish))
      ]_vars

C3_Witness ==
    /\ snd_pc = "done"
    /\ rcv_end = "timeout"
    /\ sent_late
    /\ FullySent
    /\ SentBytes(sent, "silence") > 0

\* the frames read so far whose JSON document is a mapping
DecodesToMapping(raw) == raw.json /\ raw.doc.t = "dict"
MappingFrames == SelectSeq(inbox, DecodesToMapping)

\* C4: at every point the log has one row per frame read so far that decoded
\* to a mapping, in arrival order (so a frame that is not JSON or not a
\* mapping leaves it unchanged), rows are only appended, and no frame makes
\* the receive task fail.
C4_LogIsMappingFramesInOrder ==
    [][ /\ Len(df') = Len(MappingFrames')
        /\ \A i \in 1..Len(df') :
              df'[i].is_partial = _extract_is_partial(MappingFrames'[i].doc)
        /\ Len(df') >= Len(df) /\ SubSeq(df', 1, Len(df)) = df
        /\ rcv_pc' # "raised"
      ]_vars

\* what the claim says a mapping's row holds
ClaimedIsPartial(doc) == IF doc.is_partial.t = "bool" THEN doc.is_partial ELSE PyNone
ClaimedHasTime(doc) == doc.time.t \in {"num", "bool"}
ClaimedText(doc) ==
    IF doc.data.t = "dict" /\ doc.data.text.t = "str" THEN doc.data.text.s ELSE <<>>

\* C5: reading a frame that decodes to a mapping appends exactly one row and
\* does not fail the receive task, whatever the types of its fields:
\* is_partial is the boolean or None, time is a number or None, text is
\* data.text or "" (also when data is absent or is not a mapping).
C5_MappingAlwaysAppendsRow ==
    [][ inbox' # inbox /\ DecodesToMapping(inbox'[Len(inbox')])
          => LET doc == inbox'[Len(inbox')].doc
             IN /\ rcv_pc' # "raised"
                /\ Len(df') = Len(df) + 1
                /\ df'[Len(df')].is_partial = ClaimedIsPartial(doc)
                /\ (df'[Len(df')].latency_s # PyNone <=> ClaimedHasTime(doc))
                /\ df'[Len(df')].result = ClaimedText(doc)
      ]_vars

\* C8: the session ends either returned with exactly one SessionResult, and
\* then the send task sent everything without error, or raised with no
\* SessionResult; a failed connect or send task makes it raised; a receive
\* loop ended by idle timeout is never what makes it raised.
C8_ResultOrFailure ==
    /\ Len(result) <= 1
    /\ (ses_pc = "returned" <=> Len(result) = 1)
    /\ (ses_pc = "returned" => snd_pc = "done" /\ FullySent)
    /\ (ses_pc = "raised" => result = <<>>)
    /\ (snd_pc = "raised" => ses_pc \in {"await_sender", "raised"})
    /\ (ses_pc = "raised"
          => snd_pc = "none" \/ snd_pc = "raised" \/ rcv_pc = "raised")
    /\ (ses_pc = "raised" /\ rcv_end = "timeout" => snd_pc = "raised")

C8_Witness ==
    /\ ses_pc = "returned"
    /\ Len(result) = 1
    /\ rcv_end = "timeout"
    /\ FullySent
    /\ sent # <<>>

\* C16: an asset that cannot be opened or parsed never makes the send task
\* raise: the send task raises, if at all, only after it has opened the asset
\* and started to send.
C16_UnreadableAssetNeverRaises ==
    (ses_pc # "off" /\ ~cfg.audio.readable) =>
        ~(snd_pc = "raised" /\ fh = "none" /\ sent = <<>>)

\* C17: a session that returns has written one transcript file, holding the
\* final transcript, and recorded its path in the SessionResult exactly when
\* the final transcript is not empty; the path keeps the asset's stem and
\* carries the user id, so that no other user's session writes the same path,
\* whatever asset it streams; a session that has not returned has written
\* nothing.
C17_TranscriptFileIffText ==
    /\ ses_pc # "returned" => (files = <<>> /\ result = <<>>)
    /\ ses_pc = "returned" =>
          LET text == FinalText(df, cfg.concat_finals_only)
              recorded == result[1].output_txt_path
          IN /\ Len(result) = 1
             /\ text = <<>> => (files = <<>> /\ recorded = PyNone)
             /\ text # <<>> =>
                   /\ files = <<[path |-> recorded, text |-> text]>>
                   /\ recorded # PyNone
                   /\ recorded.stem = cfg.audio.stem
                   /\ \A a \in Assets \cup SendAssets, k \in 1..(MaxUsers + 1) :
                         UserId(k - 1) # cfg.user_id
                            => _output_txt_name(a, UserId(k - 1)) # recorded

\* a session has returned with a transcript file on disk
C17_Witness ==
    /\ ses_pc = "returned"
    /\ Len(files) = 1
    /\ files[1].text # <<>>
    /\ result[1].output_txt_path = files[1].path

\* C18: once run_single_session has left the connection block, by return or
\* by exception, the connection is closed (or was never opened) and the
\* audio file handle is closed (or was never opened).
C18_ResourcesReleasedAtExit ==
    ses_pc \in {"reduce", "returned", "raised"} =>
        /\ ws \in {"none", "closed", "peer_closed"}
        /\ fh \in {"none", "closed"}
        /\ snd_pc \in {"none", "done", "raised"}

\* the session failed while streaming: the file had been opened and chunks
\* sent, the send task raised on a lost connection
C18_Witness ==
    /\ ses_pc = "raised"
    /\ snd_pc = "raised"
    /\ sent # <<>>
    /\ fh = "closed"
    /\ ws = "peer_closed"

\* the session ended normally and the connection was closed from this side
C18_WitnessNormalExit ==
    /\ ses_pc = "returned"
    /\ ws = "closed"
    /\ fh = "closed"

----------------------------------------------------------------------------
(* Properties of the load run (SpecLoad) *)

\* C6: with a non-empty asset list, run_load launches exactly `users`
\* sessions, the k-th (from 1) bound to assets[(k-1) mod len] and to user
\* <<"user_", k>>, and the results gather returns are `users` entries whose
\* k-th one comes from the k-th launched session, whatever the finish order.
C6_ResultsInLaunchOrder ==
    /\ (l_pc \in {"gather", "report", "done"}
          => /\ Len(l_tasks) = l_users
             /\ \A k \in 1..l_users :
                   /\ l_tasks[k].user_id = <<"user_", k>>
                   /\ l_tasks[k].audio_path = l_paths[((k - 1) % Len(l_paths)) + 1])
    /\ (l_pc \in {"report", "done"}
          => /\ Len(l_results) = l_users
             /\ \A k \in 1..l_users :
                   /\ l_results[k].user_id = <<"user_", k>>
                   /\ l_results[k] = l_slot[k]
                   /\ l_results[k].output_txt_path # PyNone
                        => l_results[k].output_txt_path.stem
                             = l_paths[((k - 1) % Len(l_paths)) + 1].stem)

C6_Witness ==
    /\ l_pc = "done"
    /\ l_users = 3
    /\ Len(l_paths) = 2
    /\ l_paths[1] # l_paths[2]
    /\ l_done = <<3, 1, 2>>
    /\ Len(l_reported) = 3

\* C7: when the run has ended, every session that did not itself raise has
\* run to completion and its SessionResult is among those reported.
C7_FailureIsolated ==
    l_pc \in {"done", "stopped"}
      => \A k \in DOMAIN l_st :
            l_st[k] # "raised"
              => /\ l_st[k] = "returned"
                 /\ \E j \in DOMAIN l_reported : l_reported[j] = l_tasks[k].user_id

----------------------------------------------------------------------------
(* Properties of the transcript reduction (SpecText) *)

\* rows the claim calls final: is_partial exactly false
FinalIdx(log) == {i \in DOMAIN log : log[i].is_partial = PyBool(FALSE)}

\* rows the claim says are used
UsedIdx(log, cfo) ==
    IF cfo /\ FinalIdx(log) # {} THEN FinalIdx(log) ELSE DOMAIN log

\* of those, the rows whose text has a character other than a space
KeptIdx(log, cfo) ==
    {i \in UsedIdx(log, cfo) : \E j \in DOMAIN log[i].result : log[i].result[j] # Sp}

\* the texts of rows idx among the first n, in log order, one space between
RECURSIVE JoinIdx(_, _, _)
JoinIdx(log, idx, n) ==
    IF n = 0 THEN <<>>
    ELSE IF n \notin idx THEN JoinIdx(log, idx, n - 1)
    ELSE IF idx \cap 1..(n - 1) = {} THEN log[n].result
    ELSE JoinIdx(log, idx, n - 1) \o <<Sp>> \o log[n].result

\* s from its first to its last character other than a space
TrimOf(s) ==
    LET ns == {j \in DOMAIN s : s[j] # Sp}
    IN IF ns = {} THEN <<>>
       ELSE SubSeq(s, CHOOSE j \in ns : \A k \in ns : j <= k,
                      CHOOSE j \in ns : \A k \in ns : j >= k)

\* C9: the final transcript is the trimmed single-space join, in log order,
\* of the texts that are non-empty after trimming, taken from the rows with
\* is_partial exactly false when concat_finals_only is set and such a row
\* exists, and from the whole log otherwise.
C9_FinalTranscript ==
    t_text = TrimOf(JoinIdx(t_log, KeptIdx(t_log, t_cfo), Len(t_log)))

C9_Witness ==
    /\ t_cfo
    /\ Len(t_log) = 3
    /\ FinalIdx(t_log) = {}
    /\ \E i \in DOMAIN t_log : t_log[i].is_partial = PyNone
    /\ t_text = <<"a", Sp, Sp, Sp, "b">>

\* the final rows of a log, in order
FinalRowsOf(log) ==
    LET IsFalse(r) == r.is_partial = PyBool(FALSE)
    IN SelectSeq(log, IsFalse)

\* C10: with concat_finals_only set and at least one final row, a change of
\* the log that keeps the final rows and their order (non-final rows added,
\* removed or moved) leaves the final transcript the same.
C10_PartialsDoNotMatter ==
    [][ t_cfo /\ FinalRowsOf(t_log) # <<>> /\ FinalRowsOf(t_log') = FinalRowsOf(t_log)
          => t_text' = t_text ]_vars

C10_Witness ==
    /\ t_cfo
    /\ Len(t_log) = 3
    /\ t_log[1].is_partial = PyBool(TRUE) /\ t_log[1].result = <<Sp, "b">>
    /\ t_log[2].is_partial = PyBool(FALSE) /\ t_log[2].result = <<"a", Sp>>
    /\ t_log[3].is_partial = PyNone /\ t_log[3].result = <<Sp, "b">>
    /\ t_text = <<"a">>

\* C14: run_load called with an empty asset list raises at once, before any
\* session exists: no coroutine is built, none runs (so no connection is
\* opened and no chunk is sent), and nothing is gathered or reported.
C14_EmptyAssetListRaisesFirst ==
    (l_pc # "off" /\ l_paths = <<>>) =>
        /\ l_pc \in {"start", "raised", "stopped"}
        /\ l_tasks = <<>>
        /\ l_st = <<>>
        /\ l_slot = <<>>
        /\ l_done = <<>>
        /\ l_results = <<>>
        /\ l_reported = <<>>

\* the run has failed on an empty list although several users were asked for
C14_Witness ==
    /\ l_paths = <<>>
    /\ l_users >= 2
    /\ l_pc = "raised"

----------------------------------------------------------------------------
(* Properties of the send task (SpecSend) *)

\* i is the last chunk of its kind on the wire
LastOfKind(i) == i = Len(sent) \/ sent[i + 1].kind # sent[i].kind

\* C11: for a PCM WAV asset of rate r, c channels and w bytes per sample and
\* a chunk duration of d ms, the chunk size is floor(r*d/1000)*c*w bytes and
\* at least one whole frame (c*w bytes), and no chunk on the wire, audio or
\* silence, is shorter than a frame unless it is the last of its kind.
C11_ChunkIsWholeFrames ==
    (fh # "none" /\ stream.wav) =>
        LET a == cfg.audio
            frame_bytes == a.channels * a.width
        IN /\ stream.chunk_size
                = ((a.rate * cfg.chunk_duration_ms) \div 1000) * frame_bytes
           /\ stream.chunk_size >= frame_bytes
           /\ \A i \in 1..Len(sent) :
                  sent[i].len >= frame_bytes \/ LastOfKind(i)

SilenceChunks == SelectSeq(sent, LAMBDA ch : ch.kind = "silence")

\* int(byte_rate * silence_after_sec), for the byte rate of the opened asset
ClaimedSilenceTotal == (stream.bytes_per_sec * cfg.silence_ms) \div 1000

\* C12: the silence chunks follow every audio chunk, each has the chunk size
\* except the last, which is truncated to the remainder, they sum to exactly
\* int(byte_rate * silence_after_sec) once the send task is done, and there
\* is none when that total is zero.
C12_SilenceTail ==
    LET sil == SilenceChunks
        total == ClaimedSilenceTotal
    IN /\ \A i, j \in 1..Len(sent) :
              (i < j /\ sent[i].kind = "silence") => sent[j].kind = "silence"
       /\ \A i \in 1..Len(sil) :
              /\ sil[i].len > 0
              /\ sil[i].len
                   = Min(stream.chunk_size, total - (i - 1) * stream.chunk_size)
       /\ snd_pc = "done" => SentBytes(sent, "silence") = total
       /\ total = 0 => sil = <<>>

\* a finished tail of several chunks, the last one truncated, after audio
C12_Witness ==
    /\ snd_pc = "done"
    /\ SentBytes(sent, "audio") > 0
    /\ Len(SilenceChunks) >= 2
    /\ SilenceChunks[Len(SilenceChunks)].len < stream.chunk_size

----------------------------------------------------------------------------
(* Properties of the pacing (SpecPace) *)

\* L/(B*p) in ticks, for p > 0 and B > 0
PacedTime(len, bytes_per_sec, pace_factor) ==
    (len * TickScale) \div (bytes_per_sec * pace_factor)

PositiveSettings == p_cfg.pace_factor > 0 /\ p_cfg.bytes_per_sec > 0

\* C13 as stated: for any pace factor p > 0 and byte rate B > 0 the wait
\* after a chunk of L bytes is never negative, never above L/(B*p), equal to
\* L/(B*p) minus the elapsed time when that is positive, and there is no
\* suspension otherwise.
C13_WaitIsPacedTimeLessElapsed ==
    (p_pc # "off" /\ PositiveSettings) =>
        \A i \in 1..Len(p_log) :
            LET e == p_log[i]
                paced == PacedTime(e.len, p_cfg.bytes_per_sec, p_cfg.pace_factor)
            IN e.waited =>
                  /\ e.wait >= 0
                  /\ e.wait <= paced
                  /\ paced - e.elapsed > 0 => e.wait = paced - e.elapsed
                  /\ paced - e.elapsed <= 0 => e.wait = 0
                  /\ (i = Len(p_log) /\ p_pc = "sleep") => e.wait > 0

\* C13, amended: the same with the pace factor floored at 1e-9: the wait is
\* never negative, never above L/(B*p), and equal to L/(B*max(p, 1e-9)) minus
\* the elapsed time when that is positive, with no suspension otherwise.
C13_WaitIsFlooredPacedTimeLessElapsed ==
    (p_pc # "off" /\ PositiveSettings) =>
        \A i \in 1..Len(p_log) :
            LET e == p_log[i]
                paced == PacedTime(e.len, p_cfg.bytes_per_sec, p_cfg.pace_factor)
                floored == PacedTime(e.len, p_cfg.bytes_per_sec,
                                     Max(MinPace, p_cfg.pace_factor))
            IN e.waited =>
                  /\ e.wait >= 0
                  /\ e.wait <= paced
                  /\ floored - e.elapsed > 0 => e.wait = floored - e.elapsed
                  /\ floored - e.elapsed <= 0 => e.wait = 0
                  /\ (i = Len(p_log) /\ p_pc = "sleep") => e.wait > 0

\* both branches in one run, under a pace below the floor: no sleep after
\* a chunk that took too long, a sleep after the next one
C13_Witness ==
    /\ p_pc = "sleep"
    /\ PositiveSettings
    /\ p_cfg.pace_factor < MinPace
    /\ Len(p_log) = 2
    /\ p_log[1].waited /\ p_log[1].wait = 0 /\ p_log[1].elapsed > 0
    /\ p_log[2].waited /\ p_log[2].wait > 0 /\ p_log[2].elapsed > 0

\* chunks go out one at a time, in source order
OneAtATimeInOrder ==
    /\ \A i \in 1..Len(p_log) :
          /\ p_log[i].k \in 1..Len(p_cfg.chunks)
          /\ p_log[i].len = p_cfg.chunks[p_log[i].k]
          /\ p_log[i].sent => p_log[i].began <= p_log[i].at
    /\ Len(p_log) = 2 =>
          /\ p_log[2].k = p_log[1].k + 1
          /\ p_log[1].sent /\ p_log[1].waited
          /\ p_log[1].at <= p_log[2].began
    /\ p_log # <<>> =>
          /\ p_pc \in {"t0", "done"} => (LastEntry.k = p_k - 1 /\ LastEntry.waited)
          /\ p_pc \in {"send", "wait", "sleep"} => LastEntry.k = p_k
          /\ (p_pc = "send") <=> ~LastEntry.sent
    /\ p_log = <<>> => (p_pc = "t0" /\ p_k = 1)

\* C20 as stated: chunks are sent one at a time in source order, and chunk
\* k+1 is never sent before L_k/(byte_rate*pace_factor) has elapsed since the
\* send task began handling chunk k, whatever the earlier chunks took.
C20_NeverFasterThanPaced ==
    p_pc # "off" =>
        /\ OneAtATimeInOrder
        /\ (PositiveSettings /\ Len(p_log) = 2 /\ p_log[2].sent) =>
                  p_log[2].at - p_log[1].began
                     >= PacedTime(p_log[1].len, p_cfg.bytes_per_sec,
                                  p_cfg.pace_factor)

\* C20, amended: the same with the pace factor floored at 1e-9: chunk k+1 is
\* never sent before L_k/(byte_rate*max(pace_factor, 1e-9)) has elapsed since
\* the send task began handling chunk k.
C20_NeverFasterThanFlooredPace ==
    p_pc # "off" =>
        /\ OneAtATimeInOrder
        /\ (PositiveSettings /\ Len(p_log) = 2 /\ p_log[2].sent) =>
                  p_log[2].at - p_log[1].began
                     >= PacedTime(p_log[1].len, p_cfg.bytes_per_sec,
                                  Max(MinPace, p_cfg.pace_factor))

\* an earlier chunk overran its paced time, the next one was still held back
\* for its own, and the one after it has gone out
C20_Witness ==
    /\ PositiveSettings
    /\ Len(p_log) = 2
    /\ p_log[1].overran
    /\ p_log[1].wait > 0
    /\ p_log[2].sent
    /\ p_log[2].k = 3

----------------------------------------------------------------------------
(* Properties of main (SpecMain) *)

\* C15: a pace factor not greater than 0 is rejected before any session
\* starts: no session is launched, no connection is opened and no chunk is
\* sent or paced.
C15_NonPositivePaceRejected ==
    (m_pc # "off" /\ m_args.pace <= 0) =>
        /\ m_pc \notin {"single", "load"}
        /\ m_users = <<>>
        /\ m_open = {}
        /\ m_paced = {}

----------------------------------------------------------------------------
(* Properties of the statistics (SpecStats) *)

\* C19: _print_stats prints "no values" for an empty series and only then;
\* for a single value x it prints mean = median = min = max = p95 = x; for
\* 1, 2, 3, 4, 5 (seconds) it prints mean 3, median 3, min 1 and max 5.
C19_StatsOfSmallSeries ==
    st_out # PyNone =>
        /\ (st_values = <<>>) <=> (st_out = NoValues)
        /\ Len(st_values) = 1 =>
              LET x == st_values[1] IN st_out = StatsLine(x, x, x, x, x)
        /\ st_values = <<1000, 2000, 3000, 4000, 5000>> =>
              /\ st_out.t = "stats"
              /\ st_out.media = 3000
              /\ st_out.mediana = 3000
              /\ st_out.min = 1000
              /\ st_out.max = 5000

\* the statistics of 1, 2, 3, 4, 5 have been printed
C19_Witness ==
    /\ st_values = <<1000, 2000, 3000, 4000, 5000>>
    /\ st_out # PyNone

\* the empty series has been answered
C19_WitnessEmpty ==
    /\ st_values = <<>>
    /\ st_out = NoValues

----------------------------------------------------------------------------
(* Properties of the send task under fair scheduling (SpecTerm) *)

SendTaskEnded == snd_pc \in {"done", "raised"}

\* an iteration of the audio loop that sends consumes a whole frame (a byte
\* of a raw asset), or what is left of the asset; an iteration of the silence
\* loop that sends adds at least one byte to bytes_sent
LoopsProgress ==
    /\ (snd_pc = "audio" /\ sent' # sent) =>
          /\ pos' > pos
          /\ pos' <= cfg.audio.nbytes
          /\ pos' - pos >= stream.frame \/ pos' = cfg.audio.nbytes
    /\ (snd_pc = "silence" /\ sent' # sent) =>
          /\ bytes_sent' > bytes_sent
          /\ bytes_sent' <= SilenceBytesTotal(stream, cfg)

\* C21: whatever the asset and the settings (chunk size clamped to 1, zero or
\* negative silence duration included), every iteration of the audio loop
\* consumes at least one frame or byte, every iteration of the silence loop
\* sends at least one byte, and the send task ends, done or raised, after
\* finitely many chunks.
C21_SendTaskTerminates == [][LoopsProgress]_vars /\ <>SendTaskEnded

\* the task is done after audio and a silence tail sent one byte at a time,
\* the chunk size being clamped to 1
C21_Witness ==
    /\ snd_pc = "done"
    /\ cfg.chunk_duration_ms <= 0
    /\ stream.chunk_size = 1
    /\ SentBytes(sent, "audio") > 0
    /\ Len(SilenceChunks) >= 2

\* the task is done without a silence tail, the silence duration being
\* negative
C21_WitnessNegativeSilence ==
    /\ snd_pc = "done"
    /\ cfg.silence_ms < 0
    /\ stream.bytes_per_sec > 0
    /\ sent # <<>>
    /\ SilenceChunks = <<>>

====
